---- MODULE Spec2Model ----
(***************************************************************************)
(* Model of the events service: the HTTP handlers of api/eventController.go *)
(* (CreateEvent, GetEvents, GetEventByID, StartServer), the repository of  *)
(* internal/db.go and the events table of migrations/001.                  *)
(*                                                                         *)
(* Time instants are naturals; 0 is Go's zero time.Time.  A title is a     *)
(* sequence of runs [c |-> character class, n |-> count], so that its      *)
(* length in bytes (Go len) and in characters can both be computed.        *)
(***************************************************************************)
EXTENDS Integers, Sequences, FiniteSets, TLC

\* ------------------------------------------------------------------ bounds
MaxRequests == 2      \* requests the server accepts in one run
NumUUIDs    == 2      \* size of the space the UUID generators draw from
NumSlots    == 2      \* requests in flight at the same time

\* ------------------------------------------------------- program constants
TitleLimit  == 100    \* len(in.Title) > 100
SampleRows  == 5      \* rows of the migration's INSERT ... VALUES

StatusOK                  == 200
StatusCreated             == 201
StatusBadRequest          == 400
StatusNotFound            == 404
StatusRequestTimeout      == 408
StatusInternalServerError == 500

\* ------------------------------------------------------------------- UUIDs
NilUUID == 0                       \* uuid.Nil, a well-formed identifier
\* uuid.New() and uuid_generate_v4() produce version-4 identifiers, never Nil
RandomUUIDs == 1 .. NumUUIDs
\* the identifiers the migration's sample rows were given; they are fixed
\* before the program starts and taken to differ from later draws
SampleID(i) == NumUUIDs + i
SampleIDs   == { SampleID(i) : i \in 1 .. SampleRows }
\* every well-formed identifier
UUIDs   == {NilUUID} \cup RandomUUIDs \cup SampleIDs

\* ------------------------------------------------------------------ titles
\* character classes: ASCII letter, ASCII space, two-byte letter (U+00E9),
\* three-byte whitespace (U+3000, trimmed by strings.TrimSpace)
Width(c) == CASE c = "a"  -> 1
              [] c = "sp" -> 1
              [] c = "e2" -> 2
              [] c = "s3" -> 3

IsSpaceClass(c) == c \in {"sp", "s3"}

Run(c, n) == [c |-> c, n |-> n]

RECURSIVE ByteLen(_)
\* Go's len(string): the number of bytes
ByteLen(t) == IF t = <<>> THEN 0
              ELSE Width(Head(t).c) * Head(t).n + ByteLen(Tail(t))

RECURSIVE RuneCount(_)
\* the number of characters of the title
RuneCount(t) == IF t = <<>> THEN 0 ELSE Head(t).n + RuneCount(Tail(t))

RECURSIVE TrimLeft(_)
TrimLeft(t) == IF t = <<>> THEN <<>>
               ELSE IF IsSpaceClass(Head(t).c) \/ Head(t).n = 0 THEN TrimLeft(Tail(t))
               ELSE t

RECURSIVE TrimRight(_)
TrimRight(t) == IF t = <<>> THEN <<>>
                ELSE IF IsSpaceClass(t[Len(t)].c) \/ t[Len(t)].n = 0
                     THEN TrimRight(SubSeq(t, 1, Len(t) - 1))
                ELSE t

\* strings.TrimSpace
TrimSpace(t) == TrimRight(TrimLeft(t))

Titles ==
  { <<>>,                                           \* "" or title missing
    << Run("sp", 2), Run("s3", 1) >>,               \* whitespace only
    << Run("a", TitleLimit) >>,
    << Run("a", TitleLimit + 1) >>,
    << Run("e2", TitleLimit \div 2 + 1) >>,         \* 51 characters, 102 bytes
    << Run("e2", TitleLimit + 1) >> }               \* 101 characters

\* ------------------------------------------------------------------- times
ZeroTime == 0
\* a decoded time.Time: an instant and the zone offset it was written with
Time(t, off) == [t |-> t, off |-> off]
IsZero(x)    == x.t = ZeroTime
Before(x, y) == x.t < y.t
UTC(x)       == [t |-> x.t, off |-> 0]

\* ------------------------------------------------------------ descriptions
NoDescription == <<>>                  \* nil *string, JSON null

\* --------------------------------------------------------- request bodies
Body(syntax, title, desc, st, en) ==
  [syntax |-> syntax, title |-> title, description |-> desc,
   start_time |-> st, end_time |-> en]

\* POST /events bodies: every title with a valid window, one title with
\* windows that are missing, empty or reversed and with one given in another
\* zone (its start is that of the first sample row), and two bodies the
\* decoder rejects
CreateBodies ==
  { Body("ok", t, NoDescription, Time(1, 0), Time(2, 0)) : t \in Titles }
  \cup { Body("ok", << Run("a", 1) >>, <<"d">>, Time(s, 0), Time(e, 0)) :
           s \in 0 .. 2, e \in 0 .. 1 }      \* none with 0 < s < e
  \cup { Body("ok", << Run("a", 1) >>, <<"">>, Time(25, 2), Time(26, 0)),
         Body("malformed", << Run("a", 1) >>, NoDescription, Time(1, 0), Time(2, 0)),
         Body("unknown_field", << Run("a", 1) >>, NoDescription, Time(1, 0), Time(2, 0)) }

\* dec.DisallowUnknownFields(); dec.Decode(&in)
DecodeError(body) == body.syntax # "ok"

ValidateCreateNoOrder(body) ==
  IF DecodeError(body) THEN "invalid JSON"
  ELSE IF TrimSpace(body.title) = <<>> THEN "title is required"
  ELSE IF ByteLen(body.title) > TitleLimit THEN "title must be <= 100 characters"
  ELSE IF IsZero(body.start_time) \/ IsZero(body.end_time)
       THEN "start_time and end_time are required (RFC3339)"
  ELSE ""

\* the validation of EventController.CreateEvent: the message of the first
\* failed check, "" when the body passes
ValidateCreate(body) ==
  IF DecodeError(body) THEN "invalid JSON"
  ELSE IF TrimSpace(body.title) = <<>> THEN "title is required"
  ELSE IF ByteLen(body.title) > TitleLimit THEN "title must be <= 100 characters"
  ELSE IF IsZero(body.start_time) \/ IsZero(body.end_time)
       THEN "start_time and end_time are required (RFC3339)"
  ELSE IF ~Before(body.start_time, body.end_time)
       THEN "start_time must be before end_time"
  ELSE ""

\* ------------------------------------------------------------ path values
\* the {id} segment of GET /events/{id}: the textual forms uuid.Parse accepts
\* (canonical, urn:uuid: prefix, braces, 32 hex digits) and malformed ones
\* ("bad": not-a-uuid; "nonhex": the canonical layout with a digit that is
\* not hexadecimal)
Path(form, id) == [form |-> form, id |-> id]
Paths == { Path("std", NilUUID), Path("std", 1), Path("urn", 1),
           Path("std", SampleID(1)), Path("bad", 1), Path("nonhex", 1) }

ParseUUIDLenient(p) == [err |-> FALSE, id |-> p.id]

\* uuid.Parse: the identifier, or an error and the zero UUID
ParseUUID(p) ==
  IF p.form \in {"std", "urn", "braced", "hex32"}
  THEN [err |-> FALSE, id |-> p.id]
  ELSE [err |-> TRUE, id |-> NilUUID]

\* -------------------------------------------------------------------- rows
\* internal.EventDB / a row of the events table; times are instants
EventDB(id, title, desc, st, en, ca, ua) ==
  [id |-> id, title |-> title, description |-> desc, start_time |-> st,
   end_time |-> en, created_at |-> ca, updated_at |-> ua]

\* the clock value at which the migration ran
MigrationTime == 1

SampleTitle(i) == CASE i = 1 -> << Run("a", 2),  Run("sp", 1), Run("a", 10) >>
                    [] i = 2 -> << Run("a", 6),  Run("sp", 1), Run("a", 8) >>
                    [] i = 3 -> << Run("a", 10), Run("sp", 1), Run("a", 6) >>
                    [] i = 4 -> << Run("a", 6),  Run("sp", 1), Run("a", 6) >>
                    [] i = 5 -> << Run("a", 10), Run("sp", 1), Run("a", 8) >>

SampleHours(i) == CASE i = 1 -> 3 [] i = 2 -> 4 [] i = 3 -> 2 [] i = 4 -> 6 [] i = 5 -> 8

\* INSERT INTO events ... VALUES (five sample rows): NOW() + i days, hours in
\* units of one hour; id, created_at and updated_at from the column defaults
SampleData ==
  { EventDB(SampleID(i), SampleTitle(i), <<"d">>, MigrationTime + 24 * i,
            MigrationTime + 24 * i + SampleHours(i), MigrationTime, MigrationTime) :
      i \in 1 .. SampleRows }

\* ------------------------------------------------------------------ slices
\* a Go slice of EventDB: nil or a (possibly empty) sequence
NilSlice       == [isNil |-> TRUE, elems |-> <<>>]
SliceAppend(s, e) == [isNil |-> FALSE, elems |-> Append(s.elems, e)]

\* -------------------------------------------------------------------- JSON
JSONDescription(d) == IF d = NoDescription THEN [null |-> TRUE, s |-> ""]
                      ELSE [null |-> FALSE, s |-> d[1]]

\* json encoding of one EventDB
JSONEvent(e) == [id |-> e.id, title |-> e.title,
                 description |-> JSONDescription(e.description),
                 start_time |-> e.start_time, end_time |-> e.end_time,
                 created_at |-> e.created_at, updated_at |-> e.updated_at]

JSONItems(q) == [i \in 1 .. Len(q) |-> JSONEvent(q[i])]

NoResponse   == [type |-> "none",   text |-> "", items |-> <<>>]
TextBody(m)  == [type |-> "text",   text |-> m,  items |-> <<>>]
JSONNull     == [type |-> "null",   text |-> "", items |-> <<>>]
JSONArray(q) == [type |-> "array",  text |-> "", items |-> q]
JSONObject(o) == [type |-> "object", text |-> "", items |-> << o >>]

\* json.NewEncoder(w).Encode(events) of a []EventDB: a nil slice encodes as
\* null, any other slice as an array
EncodeSlice(s) == IF s.isNil THEN JSONNull ELSE JSONArray(JSONItems(s.elems))

\* json.NewEncoder(w).Encode(event) of a *EventDB
EncodePointer(p) == IF p = <<>> THEN JSONNull ELSE JSONObject(JSONEvent(p[1]))

\* -------------------------------------------------------------- the table
NoPrimaryKey(rows, id) == FALSE

\* PRIMARY KEY (id): an insert whose id is already in the table is rejected
PrimaryKeyViolation(rows, id) == \E r \in rows : r.id = id

\* the row INSERT INTO events (title, description, start_time, end_time)
\* stores: id from uuid_generate_v4(), created_at and updated_at from NOW(),
\* which is the same instant for both columns of one statement
InsertedRow(id, arg, now) ==
  EventDB(id, arg.title, arg.description, arg.start_time, arg.end_time, now, now)

ReturningArgument(row, arg) == arg

\* RETURNING id, title, description, start_time, end_time, created_at,
\* updated_at: row.Scan fills createdEvent from the stored row; the event
\* the handler passed in gives only the four inserted values
Returning(row, arg) == row

RECURSIVE OrderByCreatedAtDesc(_)
OrderByCreatedAtDesc(rows) ==
  IF rows = {} THEN { <<>> }
  ELSE LET top == { r \in rows : \A q \in rows : r.created_at >= q.created_at }
       IN  UNION { { << r >> \o q : q \in OrderByCreatedAtDesc(rows \ {r}) } : r \in top }

RECURSIVE OrderByStartTime(_)
\* SELECT ... FROM events ORDER BY start_time ASC: every sequence of the rows
\* the statement may produce (rows of equal start_time come in any order)
OrderByStartTime(rows) ==
  IF rows = {} THEN { <<>> }
  ELSE LET top == { r \in rows : \A q \in rows : r.start_time <= q.start_time }
       IN  UNION { { << r >> \o q : q \in OrderByStartTime(rows \ {r}) } : r \in top }

RECURSIVE ScanRows(_, _)
\* var events []EventDB; for rows.Next() { ...; events = append(events, event) }
ScanRows(q, acc) ==
  IF q = <<>> THEN acc ELSE ScanRows(Tail(q), SliceAppend(acc, Head(q)))

WhereAny(rows, id) == rows

\* SELECT ... FROM events WHERE id = $1
WhereID(rows, id) == { r \in rows : r.id = id }

\* ---------------------------------------------------------------- requests
Slots == 1 .. NumSlots

NoBody  == Body("none", <<>>, NoDescription, Time(0, 0), Time(0, 0))
NoPath  == Path("none", NilUUID)

\* one request: the handler's locals and where it stands
\*   pc: "idle" (slot free), "storage" (inside the repository call),
\*       "done" (response written)
\*   ctxErr: ctx.Err() when the repository call returned: "none",
\*       "deadline" (context.DeadlineExceeded) or "canceled" (the client
\*       went away)
\*   arg: the event passed to the repository call in progress
\*   err: the repository's error: "none", "not_found" or "failed"
Idle ==
  [kind |-> "none", pc |-> "idle", body |-> NoBody, path |-> NoPath, id |-> NilUUID,
   hasDeadline |-> FALSE, ctxErr |-> "none", repoCalls |-> 0, arg |-> <<>>,
   err |-> "none", event |-> <<>>, list |-> NilSlice,
   status |-> 0, resp |-> NoResponse]

VARIABLES
  server,     \* StartServer: "starting", "running", "shutting_down",
              \* "exited" (StartServer returned), "forced" or "fatal" (log.Fatalf)
  events,     \* the rows of the events table
  clock,      \* the current time, of the process and of the database
  inflight,   \* Slots -> the request inside a repository call, or Idle
  last,       \* the request answered most recently, with its response
  accepted,   \* number of requests accepted so far
  issued,     \* the ids Repository.CreateEvent has returned
  created     \* the records Repository.CreateEvent has returned

vars == << server, events, clock, inflight, last, accepted, issued, created >>

\* the database as the program finds it: the table of the migration, with or
\* without its sample rows
Init ==
  /\ server = "starting"
  /\ events \in { {}, SampleData }
  /\ clock = MigrationTime
  /\ inflight = [s \in Slots |-> Idle]
  /\ last = Idle
  /\ accepted = 0
  /\ issued = {}
  /\ created = {}

Alive == server \in {"running", "shutting_down"}

\* the handler of slot s enters its repository call as r
Call(s, r) == inflight' = [inflight EXCEPT ![s] = r] /\ UNCHANGED last

\* the handler of slot s returns with the response r: loggingMiddleware
\* logs the request and the connection is idle again
Answer(s, r) == inflight' = [inflight EXCEPT ![s] = Idle] /\ last' = r

\* a request is served by the first free goroutine slot
CanAccept(s) ==
  /\ server = "running"
  /\ inflight[s] = Idle
  /\ \A q \in Slots : q < s => inflight[q] # Idle
  /\ accepted < MaxRequests

\* what ctx.Err() can be when a repository call has failed: nil, Canceled
\* (the client closed its connection, which cancels r.Context() and every
\* context derived from it) or, for a context made by context.WithTimeout,
\* DeadlineExceeded
CtxOutcomes(r) ==
  {"none", "canceled"} \cup (IF r.hasDeadline THEN {"deadline"} ELSE {})

\* ---------------------------------------------------- EventController.CreateEvent
\* the event the handler builds for the repository: uuid.New(), the body's
\* fields with the times UTC-normalised, time.Now().UTC() twice
NewEvent(gen, body, now) ==
  EventDB(gen, body.title, body.description,
          UTC(body.start_time).t, UTC(body.end_time).t, now, now)

\* POST /events up to the repository call: a body that fails validation is
\* answered 400 at once; a valid one enters Repository.CreateEvent under a
\* context with a 10 s timeout
BeginCreate(s, body) ==
  /\ CanAccept(s)
  /\ accepted' = accepted + 1
  /\ LET msg == ValidateCreate(body)
         r   == [Idle EXCEPT !.kind = "create", !.body = body, !.hasDeadline = TRUE]
     IN  IF msg # ""
         THEN Answer(s, [r EXCEPT !.pc = "done", !.status = StatusBadRequest,
                                  !.resp = TextBody(msg)])
         ELSE \E gen \in RandomUUIDs :
                Call(s, [r EXCEPT !.pc = "storage", !.repoCalls = 1,
                                  !.arg = << NewEvent(gen, body, clock) >>])
  /\ UNCHANGED << server, events, clock, issued, created >>

StatusAlways500(ctxErr) == StatusInternalServerError

\* if ctx.Err() == context.DeadlineExceeded { 408 } else { 500 }
StatusForRepoError(ctxErr) ==
  IF ctxErr = "deadline" THEN StatusRequestTimeout ELSE StatusInternalServerError

\* CreateEvent after the repository call: r holds the call's results
RespondCreate(r) ==
  IF r.err # "none"
  THEN [r EXCEPT !.pc = "done", !.status = StatusForRepoError(r.ctxErr),
                 !.arg = << >>,
                 !.resp = TextBody(IF r.ctxErr = "deadline" THEN "Request timeout"
                                   ELSE "Failed to create event")]
  ELSE [r EXCEPT !.pc = "done", !.status = StatusCreated, !.arg = << >>,
                 !.resp = EncodePointer(r.event)]

\* Repository.CreateEvent returns, and the handler writes its response.
\* The INSERT ... RETURNING fails without storing a row (connection error,
\* constraint violation, context done), or stores the row; the row of a
\* statement the database has executed is lost to the caller when the
\* context is done before the row is scanned.
CreateReturn(s) ==
  LET r == inflight[s]
      Failed(c) == Answer(s, RespondCreate([r EXCEPT !.err = "failed", !.ctxErr = c]))
  IN
  /\ Alive
  /\ r.kind = "create" /\ r.pc = "storage"
  /\ \/ /\ \E c \in CtxOutcomes(r) : Failed(c)
        /\ UNCHANGED << events, clock, issued, created >>
     \/ \E id \in RandomUUIDs :
          IF PrimaryKeyViolation(events, id)
          THEN Failed("none") /\ UNCHANGED << events, clock, issued, created >>
          ELSE LET row == InsertedRow(id, r.arg[1], clock) IN
               /\ events' = events \cup {row}
               /\ clock' = clock + 1
               /\ \/ LET rec == Returning(row, r.arg[1]) IN
                     /\ Answer(s, RespondCreate([r EXCEPT !.event = << rec >>]))
                     /\ issued' = issued \cup {rec.id}
                     /\ created' = created \cup {rec}
                  \/ /\ \E c \in CtxOutcomes(r) \ {"none"} : Failed(c)
                     /\ UNCHANGED << issued, created >>
  /\ UNCHANGED << server, accepted >>

\* ------------------------------------------------------ EventController.GetEvents
BeginList(s) ==
  /\ CanAccept(s)
  /\ accepted' = accepted + 1
  /\ Call(s, [Idle EXCEPT !.kind = "list", !.pc = "storage", !.hasDeadline = TRUE,
                          !.repoCalls = 1])
  /\ UNCHANGED << server, events, clock, issued, created >>

\* GetEvents after the repository call; the status is 200 when the handler
\* writes the body without WriteHeader
RespondList(r) ==
  IF r.err # "none"
  THEN [r EXCEPT !.pc = "done", !.status = StatusForRepoError(r.ctxErr),
                 !.resp = TextBody(IF r.ctxErr = "deadline" THEN "Request timeout"
                                   ELSE "Failed to get events")]
  ELSE [r EXCEPT !.pc = "done", !.status = StatusOK, !.resp = EncodeSlice(r.list)]

\* Repository.GetEvents returns (the SELECT ... ORDER BY start_time and the
\* loop over its rows; nil and an error when the query or the iteration
\* fails), and the handler writes its response
ListReturn(s) ==
  LET r == inflight[s] IN
  /\ Alive
  /\ r.kind = "list" /\ r.pc = "storage"
  /\ \/ \E c \in CtxOutcomes(r) :
          Answer(s, RespondList([r EXCEPT !.err = "failed", !.ctxErr = c]))
     \/ \E q \in OrderByStartTime(events) :
          Answer(s, RespondList([r EXCEPT !.list = ScanRows(q, NilSlice)]))
  /\ UNCHANGED << server, events, clock, accepted, issued, created >>

\* --------------------------------------------------- EventController.GetEventByID
\* GET /events/{id} up to the repository call; ctx is r.Context() itself, no
\* timeout is put on it
BeginGet(s, path) ==
  /\ CanAccept(s)
  /\ accepted' = accepted + 1
  /\ LET p == ParseUUID(path)
         r == [Idle EXCEPT !.kind = "get", !.path = path]
     IN  IF p.err
         THEN Answer(s, [r EXCEPT !.pc = "done", !.status = StatusBadRequest,
                                  !.resp = TextBody("Invalid UUID format")])
         ELSE Call(s, [r EXCEPT !.pc = "storage", !.id = p.id, !.repoCalls = 1])
  /\ UNCHANGED << server, events, clock, issued, created >>

\* GetEventByID after the repository call: 404 for every error
RespondGet(r) ==
  IF r.err # "none"
  THEN [r EXCEPT !.pc = "done", !.status = StatusNotFound,
                 !.resp = TextBody("Event not found")]
  ELSE [r EXCEPT !.pc = "done", !.status = StatusOK, !.resp = EncodePointer(r.event)]

\* Repository.GetEventByID returns (sql.ErrNoRows becomes "event not found",
\* every other error "failed to get event by ID"), and the handler writes
\* its response
GetReturn(s) ==
  LET r == inflight[s]
      m == WhereID(events, r.id)
  IN
  /\ Alive
  /\ r.kind = "get" /\ r.pc = "storage"
  /\ \/ \E c \in CtxOutcomes(r) :
          Answer(s, RespondGet([r EXCEPT !.err = "failed", !.ctxErr = c]))
     \/ IF m = {}
        THEN Answer(s, RespondGet([r EXCEPT !.err = "not_found"]))
        ELSE \E row \in m : Answer(s, RespondGet([r EXCEPT !.event = << row >>]))
  /\ UNCHANGED << server, events, clock, accepted, issued, created >>

\* ------------------------------------------------------------- StartServer
\* the goroutine's srv.ListenAndServe() starts serving
Listen ==
  /\ server = "starting"
  /\ server' = "running"
  /\ UNCHANGED << events, clock, inflight, last, accepted, issued, created >>

\* srv.ListenAndServe() fails (the port is taken): log.Fatalf
ListenFail ==
  /\ server = "starting"
  /\ server' = "fatal"
  /\ UNCHANGED << events, clock, inflight, last, accepted, issued, created >>

\* SIGINT or SIGTERM arrives on quit; srv.Shutdown closes the listeners
Signal ==
  /\ server \in {"starting", "running"}
  /\ server' = "shutting_down"
  /\ UNCHANGED << events, clock, inflight, last, accepted, issued, created >>

ConnectionsAny(fl) == TRUE

\* srv.Shutdown returns nil once every connection is idle
ConnectionsIdle(fl) == \A s \in Slots : fl[s] = Idle

\* srv.Shutdown(ctx) returned nil: "Server exited", StartServer returns
ShutdownReturn ==
  /\ server = "shutting_down"
  /\ ConnectionsIdle(inflight)
  /\ server' = "exited"
  /\ UNCHANGED << events, clock, inflight, last, accepted, issued, created >>

\* the 30 s context of srv.Shutdown expires with requests still in flight:
\* log.Fatalf("Server forced to shutdown")
ShutdownTimeout ==
  /\ server = "shutting_down"
  /\ ~ConnectionsIdle(inflight)
  /\ server' = "forced"
  /\ UNCHANGED << events, clock, inflight, last, accepted, issued, created >>

\* ------------------------------------------------------------ specification
Next ==
  \/ Listen
  \/ ListenFail
  \/ Signal
  \/ ShutdownReturn
  \/ ShutdownTimeout
  \/ \E s \in Slots : \E body \in CreateBodies : BeginCreate(s, body)
  \/ \E s \in Slots : BeginList(s)
  \/ \E s \in Slots : \E path \in Paths : BeginGet(s, path)
  \/ \E s \in Slots : CreateReturn(s)
  \/ \E s \in Slots : ListReturn(s)
  \/ \E s \in Slots : GetReturn(s)

Spec == Init /\ [][Next]_vars

\* the step of a request the runtime guarantees: a repository call under a
\* context with a timeout returns, with its result or aborted when the 10 s
\* have passed.  Nothing makes the database answer a statement of
\* GetEventByID, whose context has no timeout.
Progress(s) == CreateReturn(s) \/ ListReturn(s)

\* timers fire and Shutdown returns; no client has to arrive or go away and
\* no signal has to be sent
Fairness ==
  /\ WF_vars(ShutdownReturn)
  /\ WF_vars(ShutdownTimeout)
  /\ \A s \in Slots : WF_vars(Progress(s))

\* the requests of the fair specification: one body that passes validation
\* and one that does not, one well-formed and one malformed path
FairBodies == { Body("ok", << Run("a", 1) >>, <<"d">>, Time(1, 0), Time(e, 0)) :
                  e \in 1 .. 2 }
FairPaths  == { Path("std", SampleID(1)), Path("bad", 1) }

FairNext ==
  \/ Listen
  \/ ListenFail
  \/ Signal
  \/ ShutdownReturn
  \/ ShutdownTimeout
  \/ \E s \in Slots : \E body \in FairBodies : BeginCreate(s, body)
  \/ \E s \in Slots : BeginList(s)
  \/ \E s \in Slots : \E path \in FairPaths : BeginGet(s, path)
  \/ \E s \in Slots : CreateReturn(s)
  \/ \E s \in Slots : ListReturn(s)
  \/ \E s \in Slots : GetReturn(s)

\* the same program under the runtime's guarantees, with fewer request values
FairSpec == Init /\ [][FairNext]_vars /\ Fairness

TypeOK ==
  /\ server \in {"starting", "running", "shutting_down", "exited", "forced", "fatal"}
  /\ accepted \in 0 .. MaxRequests
  /\ issued \subseteq RandomUUIDs
  /\ issued = { c.id : c \in created }
  /\ last.pc \in {"idle", "done"}
  /\ \A s \in Slots : inflight[s].pc \in {"idle", "storage"}

\* ------------------------------------------------------------------ claims
\* the repository call of slot s returns in this step; last' is the request
\* with its results and its response
Returned(s) == inflight[s].pc = "storage" /\ inflight'[s].pc = "idle"

\* this step answers a request that made no repository call
Rejected == accepted' = accepted + 1 /\ inflight' = inflight

NoneInFlight == \A s \in Slots : inflight[s].pc = "idle"

\* a POST /events body fails validation, in the words of the interface: not
\* decodable or with an unknown field, title empty or whitespace only, title
\* of more than 100 characters, a time missing or zero, start not before end
FailsValidation(body) ==
  \/ body.syntax # "ok"
  \/ \A i \in 1 .. Len(body.title) : IsSpaceClass(body.title[i].c)
  \/ RuneCount(body.title) > TitleLimit
  \/ body.start_time.t = ZeroTime \/ body.end_time.t = ZeroTime
  \/ body.start_time.t >= body.end_time.t

\* C1: a POST /events whose body fails validation is answered 400 without
\* any call of Repository.CreateEvent (no such body is ever inside the
\* repository call), and the step that answers it leaves the rows of the
\* table as they were.
C1_InvalidCreateRejected ==
  /\ []((last.kind = "create" /\ FailsValidation(last.body))
          => (last.status = StatusBadRequest /\ last.repoCalls = 0))
  /\ [](\A s \in Slots :
          inflight[s].kind = "create" => ~FailsValidation(inflight[s].body))
  /\ [][(Rejected /\ last'.kind = "create" /\ FailsValidation(last'.body))
          => (events' = events)]_vars

\* a body with start_time >= end_time has been answered 400 while the table
\* holds rows
C1_Witness ==
  /\ last.kind = "create" /\ last.pc = "done"
  /\ last.status = StatusBadRequest
  /\ last.body.syntax = "ok"
  /\ last.body.start_time.t >= last.body.end_time.t
  /\ last.body.start_time.t # ZeroTime
  /\ events # {}

\* C2: whenever Repository.CreateEvent returns a record, its id is not the
\* nil UUID, differs from every id CreateEvent has returned before (creates
\* that overlap in time included), and its created_at equals its updated_at.
C2_FreshIdAndEqualStamps ==
  [][\A s \in Slots :
       (Returned(s) /\ last'.kind = "create" /\ last'.err = "none")
         => /\ Len(last'.event) = 1
            /\ last'.event[1].id # NilUUID
            /\ last'.event[1].id \notin issued
            /\ last'.event[1].created_at = last'.event[1].updated_at
            /\ last'.status = StatusCreated]_vars

\* two creates have returned records, with two different ids
C2_Witness ==
  /\ Cardinality(issued) = 2
  /\ last.kind = "create" /\ last.status = StatusCreated

\* C3 (as claimed): a GET /events that finds no rows is answered 200 with
\* the JSON empty array, and Repository.GetEvents returned an empty sequence.
C3_EmptyListIsEmptyArray ==
  (/\ last.kind = "list" /\ last.pc = "done"
   /\ last.err = "none" /\ Len(last.list.elems) = 0)
    => /\ last.status = StatusOK
       /\ last.resp = JSONArray(<< >>)

\* C4: the sequence Repository.GetEvents returns holds exactly the rows of
\* the table, each once, and is ordered non-decreasing by start_time.
C4_ListSortedAndExact ==
  [][\A s \in Slots :
       (Returned(s) /\ last'.kind = "list" /\ last'.err = "none")
         => LET q == last'.list.elems IN
            /\ Len(q) = Cardinality(events)
            /\ { q[i] : i \in 1 .. Len(q) } = events
            /\ \A i \in 1 .. Len(q) - 1 : q[i].start_time <= q[i + 1].start_time
            /\ last'.resp.items = JSONItems(q)]_vars

\* a list of the sample rows and one created row has been returned
C4_Witness ==
  /\ last.kind = "list" /\ last.pc = "done"
  /\ last.err = "none"
  /\ Len(last.list.elems) = SampleRows + 1

C6_FailureIs408Or500 ==
  (/\ last.kind \in {"create", "list"} /\ last.pc = "done"
   /\ last.err # "none")
    => /\ last.ctxErr = "deadline" => last.status = StatusRequestTimeout
       /\ last.ctxErr # "deadline" => last.status = StatusInternalServerError
       /\ last.status \notin 200 .. 299

\* a create whose deadline passed after the database had stored the row has
\* been answered 408
C6_Witness ==
  /\ last.kind = "create" /\ last.pc = "done"
  /\ last.err = "failed" /\ last.ctxErr = "deadline"
  /\ last.status = StatusRequestTimeout
  /\ \E e \in events : e.id \in RandomUUIDs \ issued

\* C7 (as claimed): every handler that is inside a repository call holds a
\* context with a deadline of its own, and a call that ended because that
\* deadline passed is answered with the timeout status.
C7_EveryStorageCallHasDeadline ==
  /\ \A s \in Slots : inflight[s].pc = "storage" => inflight[s].hasDeadline
  /\ (last.pc = "done" /\ last.repoCalls > 0)
       => /\ last.hasDeadline
          /\ last.ctxErr = "deadline" => last.status = StatusRequestTimeout

\* C8 (as claimed): GET /events/{id} is answered 404 only when the
\* repository reported not-found; any other failure of the repository is
\* answered 408 or 500.
C8_NotFoundOnlyIs404 ==
  (last.kind = "get" /\ last.pc = "done")
    => /\ last.status = StatusNotFound => last.err = "not_found"
       /\ last.err = "failed"
            => last.status \in {StatusRequestTimeout, StatusInternalServerError}

\* C9 (as claimed): a title that is non-empty after trimming and has at most
\* 100 characters is not rejected for its title, and a title of more than
\* 100 characters is answered 400.
C9_TitleLimitInCharacters ==
  (last.kind = "create" /\ last.body.syntax = "ok")
    => LET t == last.body.title IN
       /\ (TrimSpace(t) # << >> /\ RuneCount(t) <= TitleLimit)
            => ~(/\ last.status = StatusBadRequest
                 /\ last.resp.text \in
                      {"title is required", "title must be <= 100 characters"})
       /\ RuneCount(t) > TitleLimit => last.status = StatusBadRequest

\* ---------------------------------------------------------------- shutdown
Terminated == server \in {"exited", "forced"}

\* C10: once SIGINT/SIGTERM has been received no further request is
\* accepted; StartServer returns only after a signal and only when no
\* request is in flight any more (requests in flight are left to finish; the
\* process ends with some still running only through the expiry of the 30 s
\* shutdown context); and after the signal the process eventually
\* terminates, whether or not the requests in flight complete.
C10_GracefulShutdown ==
  /\ [][(server # "running") => (accepted' = accepted)]_vars
  /\ [][(server' = "exited") => (server = "shutting_down" /\ NoneInFlight)]_vars
  /\ [][(server' = "forced") => (server = "shutting_down" /\ ~NoneInFlight)]_vars
  /\ [](server = "exited" => NoneInFlight)
  /\ (server = "shutting_down" ~> Terminated)

\* the process was forced down while a repository call had not returned
C10_Witness ==
  /\ server = "forced"
  /\ \E s \in Slots : inflight[s].pc = "storage"

\* ------------------------------------------------------- malformed identifier
\* the {id} segment is a UUID in one of its textual forms
WellFormedUUID(path) == path.form \in {"std", "urn", "braced", "hex32"}

\* C11: a GET /events/{id} whose path identifier is not a well-formed UUID
\* is answered 400, and Repository.GetEventByID is never invoked for it: no
\* such request is ever inside the repository call, and the step that
\* answers it is the step that accepted it.
C11_MalformedIdRejected ==
  /\ []((last.kind = "get" /\ ~WellFormedUUID(last.path))
          => (last.status = StatusBadRequest /\ last.repoCalls = 0))
  /\ [](\A s \in Slots :
          inflight[s].kind = "get" => WellFormedUUID(inflight[s].path))
  /\ [][\A s \in Slots :
          (Returned(s) /\ last'.kind = "get") => WellFormedUUID(last'.path)]_vars

\* GET /events/not-a-uuid has been answered 400 while the table holds rows
\* and the server is still running
C11_Witness ==
  /\ last.kind = "get" /\ last.pc = "done"
  /\ last.path.form = "bad"
  /\ last.status = StatusBadRequest
  /\ last.resp = TextBody("Invalid UUID format")
  /\ events # {}

====
